---- MODULE Spec2Model ----
(***************************************************************************)
(* School management backend: the exam attempt workflow (exams/views.py,   *)
(* exams/models.py) and the password reset flow (accounts/views.py,        *)
(* accounts/models.py), as state machines over the relational store.       *)
(* A nullable column holds <<>> for NULL and <<v>> for the value v.        *)
(***************************************************************************)
EXTENDS Integers, Sequences, FiniteSets, TLC

VARIABLES
    now,            \* timezone.now(), in hours
    password,       \* auth User.password, per account
    userprofile,    \* accounts.UserProfile: account -> <<role>>, <<>> when there is no row
    students,       \* students.Student rows
    accounts,       \* auth User rows
    teachers,       \* teachers.Teacher rows
    nextUserId,     \* how many User rows were ever inserted after the initial ones
    nextStudentId,  \* the Student table's AUTOINCREMENT sequence
    nextTeacherId,  \* the Teacher table's AUTOINCREMENT sequence
    exams,          \* exams.Exam rows
    questions,      \* exams.Question rows
    nextQuestionId, \* the Question table's AUTOINCREMENT sequence
    studentExams,   \* exams.StudentExam rows
    nextStudentExamId, \* the StudentExam table's AUTOINCREMENT sequence
    studentAnswers, \* exams.StudentAnswer rows, per StudentExam id, in id order
    tokens,         \* accounts.PasswordResetToken rows
    nextToken,      \* how many reset tokens secrets.token_urlsafe has produced
    last,           \* the last request handled and the response it got
    calls,          \* the requests being handled statement by statement
    history         \* what earlier responses said (history only, read by no handler)

vars == <<now, password, userprofile, students, accounts, teachers, nextUserId,
          nextStudentId, nextTeacherId, exams, questions, nextQuestionId,
          studentExams, nextStudentExamId, studentAnswers, tokens, nextToken, last,
          calls, history>>

examVars == <<exams, questions, nextQuestionId, studentExams, nextStudentExamId,
              studentAnswers>>
authVars == <<password, tokens, nextToken>>
rosterVars == <<userprofile, students, accounts, teachers, nextUserId, nextStudentId,
               nextTeacherId>>

----------------------------------------------------------------------------
(* Bounds of the model *)

MaxClock == 2           \* the clock stops advancing here
MaxQuestions == 2       \* Question rows ever created in an empty catalogue
MaxStudentExams == 2    \* StudentExam rows ever created
MaxAnswers == 2         \* entries in one submitted answers list
MaxTokens == 3          \* reset tokens ever issued
MaxNewAccounts == 2     \* User rows ever inserted after the initial ones

----------------------------------------------------------------------------
(* The fixed population: accounts, roster and exam catalogue *)

Null == <<>>
Some(v) == <<v>>
Val(opt) == opt[1]

Users == {"ann", "bob", "cat", "tom", "tim", "root"}

Letters == {"A", "B", "C", "D"}

\* Student rows: ann and bob have one; cat is a student account without a roster row.
InitStudents ==
    { [id |-> 1, user |-> "ann", assigned_teacher |-> Some(1),
       email |-> "ann@x", roll_number |-> "R1"],
      [id |-> 2, user |-> "bob", assigned_teacher |-> Some(1),
       email |-> "shared@x", roll_number |-> "R2"] }

\* Teacher rows: id -> account.
TeacherUser == (1 :> "tom") @@ (2 :> "tim")
InitTeachers ==
    { [id |-> 1, user |-> "tom", email |-> "staff@x"],
      [id |-> 2, user |-> "tim", email |-> "tim@x"] }

\* The primary keys of the User rows inserted after the initial ones, in order.
FreshUsers == <<"u1", "u2", "u3", "u4">>
NewUsers == { FreshUsers[i] : i \in 1..MaxNewAccounts }

InitProfiles ==
    ("ann" :> Some("student")) @@ ("bob" :> Some("student")) @@
    ("cat" :> Some("student")) @@ ("tom" :> Some("teacher")) @@
    ("tim" :> Some("teacher")) @@ ("root" :> Some("admin"))

ExamIds == {1, 2}

\* Exam rows: exam 1 is tom's (passing_marks is drawn in Init), exam 2 is tim's.
PassingMarks == {0, 2}
InitExams(pm) ==
    { [id |-> 1, created_by |-> "tom", passing_marks |-> pm, total_marks |-> 4],
      [id |-> 2, created_by |-> "tim", passing_marks |-> 0, total_marks |-> 4] }

\* Exam 1 (tom's) holds questions 1 and 2, exam 2 (tim's) holds question 3.
InitQuestions ==
    { [id |-> 1, exam |-> 1, correct_answer |-> "A", marks |-> 1],
      [id |-> 2, exam |-> 1, correct_answer |-> "B", marks |-> 2],
      [id |-> 3, exam |-> 2, correct_answer |-> "A", marks |-> 1] }

----------------------------------------------------------------------------
(* Request payloads *)

\* request.data of submit_exam: no 'answers' key, 'answers' not a list, or a list.
\* An entry is a JSON object; the one without 'selected_answer' stands for the
\* entries that are not a {question_id, selected_answer} pair.
Entry(qid, letter) == [question_id |-> qid, selected_answer |-> letter]

AnswerEntries ==
    { Entry("1", "A"), Entry("2", "B"), Entry("2", "A"), Entry("3", "A"),
      Entry("1", "E"), Entry("x", "A"), [question_id |-> "1"] }

ListsOver(entries) == UNION { [1..n -> entries] : n \in 0..MaxAnswers }

BodiesOver(entries) ==
    { [kind |-> "missing", answers |-> <<>>], [kind |-> "scalar", answers |-> <<>>] }
        \cup { [kind |-> "list", answers |-> a] : a \in ListsOver(entries) }

SubmitBodies == BodiesOver(AnswerEntries)

\* int(value) of IntegerField.get_prep_value: the decimal strings convert, any
\* other string raises ValueError.
IntOf == ("1" :> 1) @@ ("2" :> 2) @@ ("3" :> 3)
IsNumeric(s) == s \in DOMAIN IntOf

----------------------------------------------------------------------------
(* The response of the last request *)

NoRequest ==
    [ op |-> "none", user |-> "", pk |-> 0, body |-> Null, status |-> 0,
      score |-> 0, correct_answers |-> 0, total_questions |-> 0,
      is_passed |-> FALSE, rows |-> {}, answers |-> <<>>,
      pre |-> Null, preAnswers |-> <<>>, old |-> Null ]

Request(op, u, pk) == [NoRequest EXCEPT !.op = op, !.user = u, !.pk = pk]

\* A request whose handler runs one database statement at a time: the
\* statement it is at (pc), its local variables student_exam (row), created,
\* total_score (score) and correct_count (count), the entries of answers_data
\* it has processed (seen), whether its INSERT met the unique constraint
\* (conflict), and its response status.
Calls == {"c1", "c2"}
Idle ==
    [ kind |-> "none", pc |-> "idle", student |-> 0, exam |-> 0, row |-> Null,
      created |-> FALSE, conflict |-> FALSE, answers |-> <<>>, seen |-> 0,
      score |-> 0, count |-> 0, wrote |-> <<>>, status |-> 0 ]

----------------------------------------------------------------------------
(* Queries *)

\* Student.objects.get(user=user): the rows it can return.
StudentsOf(u) == { s \in students : s.user = u }

HasProfile(u) == userprofile[u] # Null
RoleOf(u) == Val(userprofile[u])

QuestionsOf(examId) == { q \in questions : q.exam = examId }
QuestionCount(examId) == Cardinality(QuestionsOf(examId))

AttemptsOf(sid, eid) == { r \in studentExams : r.student = sid /\ r.exam = eid }

\* if student_exam.completed_at:
IsCompletedByScore(row) == row.score > 0

IsCompleted(row) == row.completed_at # Null

AnswersOf(seid) == studentAnswers[seid]

ExamQuerysetAll(u) == exams

\* ExamViewSet.get_queryset: the exams the caller can address.
ExamQueryset(u) ==
    IF ~HasProfile(u) THEN {}
    ELSE IF RoleOf(u) = "teacher" THEN { e \in exams : e.created_by = u }
    ELSE IF RoleOf(u) = "student" THEN
        IF StudentsOf(u) = {} THEN {}
        ELSE LET student == CHOOSE s \in StudentsOf(u) : TRUE IN
             IF student.assigned_teacher # Null
             THEN { e \in exams : \E t \in teachers :
                        t.id = Val(student.assigned_teacher) /\ e.created_by = t.user }
             ELSE {}
    ELSE {}

\* QuestionViewSet.get_queryset
QuestionQueryset(u) ==
    IF HasProfile(u) /\ RoleOf(u) = "teacher"
    THEN { q \in questions : \E e \in exams : e.id = q.exam /\ e.created_by = u }
    ELSE {}

\* StudentExamViewSet.get_queryset
StudentExamQuerysetAll(u) == studentExams

StudentExamQueryset(u) ==
    IF StudentsOf(u) = {} THEN {}
    ELSE LET student == CHOOSE s \in StudentsOf(u) : TRUE IN
         { r \in studentExams : r.student = student.id }

----------------------------------------------------------------------------
(* StudentExam rows *)

NewStudentExam(id, sid, eid, tq) ==
    [ id |-> id, student |-> sid, exam |-> eid, started_at |-> now,
      completed_at |-> Null, score |-> 0, total_questions |-> tq,
      correct_answers |-> 0, is_passed |-> FALSE ]

\* StudentExam.objects.get_or_create(student=, exam=, defaults=): the row, whether
\* it was created, and the table afterwards.
GetOrCreate(sid, eid, tq) ==
    IF AttemptsOf(sid, eid) # {}
    THEN [ row |-> CHOOSE r \in AttemptsOf(sid, eid) : TRUE, created |-> FALSE,
           table |-> studentExams ]
    ELSE LET row == NewStudentExam(nextStudentExamId, sid, eid, tq) IN
         [ row |-> row, created |-> TRUE, table |-> studentExams \cup {row} ]

\* instance.save(): the row with this id is rewritten.
SaveRow(table, row) == { r \in table : r.id # row.id } \cup {row}

\* The reset of start_exam for an existing, incomplete attempt.
ResetKeepsCount(row, tq) ==
    [row EXCEPT !.started_at = now, !.score = 0, !.correct_answers = 0,
                !.is_passed = FALSE]

ResetAttempt(row, tq) ==
    [row EXCEPT !.started_at = now, !.score = 0, !.correct_answers = 0,
                !.is_passed = FALSE, !.total_questions = tq]

\* StudentAnswer.objects.filter(student_exam=row).delete()
DeleteAnswers(table, seid) == [table EXCEPT ![seid] = <<>>]

\* What a handler saw of the attempt before it acted (for the response log).
PreRow(sid, eid) ==
    IF AttemptsOf(sid, eid) = {} THEN Null
    ELSE Some(CHOOSE r \in AttemptsOf(sid, eid) : TRUE)
PreAnswers(sid, eid) ==
    IF AttemptsOf(sid, eid) = {} THEN <<>>
    ELSE AnswersOf((CHOOSE r \in AttemptsOf(sid, eid) : TRUE).id)

----------------------------------------------------------------------------
(* ExamViewSet.start_exam *)

StartExam(u, pk) ==
    LET req == Request("start_exam", u, pk)
        found == { e \in ExamQueryset(u) : e.id = pk }
    IN
    IF found = {} THEN
        /\ last' = [req EXCEPT !.status = 404]
        /\ UNCHANGED <<calls, now, authVars, rosterVars, examVars, history>>
    ELSE IF ~HasProfile(u) \/ RoleOf(u) # "student" THEN
        /\ last' = [req EXCEPT !.status = 403]
        /\ UNCHANGED <<calls, now, authVars, rosterVars, examVars, history>>
    ELSE IF StudentsOf(u) = {} THEN
        /\ last' = [req EXCEPT !.status = 404]
        /\ UNCHANGED <<calls, now, authVars, rosterVars, examVars, history>>
    ELSE
        LET exam == CHOOSE e \in found : TRUE
            student == CHOOSE s \in StudentsOf(u) : TRUE
            count == QuestionCount(exam.id)
            goc == GetOrCreate(student.id, exam.id, count)
            seen == [req EXCEPT !.pre = PreRow(student.id, exam.id),
                                !.preAnswers = PreAnswers(student.id, exam.id)]
        IN
        /\ goc.created => nextStudentExamId <= MaxStudentExams
        /\ nextStudentExamId' = IF goc.created THEN nextStudentExamId + 1
                                ELSE nextStudentExamId
        /\ UNCHANGED <<calls, now, authVars, rosterVars, history, exams, questions, nextQuestionId>>
        /\ IF IsCompleted(goc.row) THEN
               /\ last' = [seen EXCEPT !.status = 400, !.score = goc.row.score]
               /\ studentExams' = goc.table
               /\ UNCHANGED studentAnswers
           ELSE
               LET row == IF goc.created THEN goc.row ELSE ResetAttempt(goc.row, count) IN
               /\ studentExams' = SaveRow(goc.table, row)
               /\ studentAnswers' = IF goc.created THEN studentAnswers
                                    ELSE DeleteAnswers(studentAnswers, row.id)
               /\ last' = [seen EXCEPT !.status = IF count = 0 THEN 400 ELSE 200,
                                       !.rows = {row.id}]

----------------------------------------------------------------------------
(* ExamViewSet.submit_exam *)

\* isinstance(answer, dict) and both keys present
IsEntry(a) == {"question_id", "selected_answer"} \subseteq DOMAIN a

\* The StudentAnswer row stored for one accepted entry. graded_against is a
\* history field, not a column: the question's correct_answer when the row was made.
NewAnswer(q, selected) ==
    [ question |-> q.id, selected_answer |-> selected,
      is_correct |-> (q.correct_answer = selected),
      graded_against |-> q.correct_answer ]

\* The loop over answers_data. acc = [rows, score, count, raised]: the rows
\* created so far, total_score, correct_count, and whether the loop was left by
\* an exception that submit_exam does not catch.
RECURSIVE ProcessAnswers(_, _, _)
ProcessAnswers(answers, examId, acc) ==
    IF answers = <<>> THEN acc
    ELSE
        LET a == Head(answers) IN
        IF ~IsEntry(a) THEN ProcessAnswers(Tail(answers), examId, acc)
        ELSE IF a.selected_answer \notin Letters
        THEN ProcessAnswers(Tail(answers), examId, acc)
        ELSE IF ~IsNumeric(a.question_id) THEN [acc EXCEPT !.raised = TRUE]
        ELSE
            LET hit == { q \in questions :
                            q.id = IntOf[a.question_id] /\ q.exam = examId } IN
            IF hit = {} THEN ProcessAnswers(Tail(answers), examId, acc)
            ELSE
                LET q == CHOOSE x \in hit : TRUE
                    row == NewAnswer(q, a.selected_answer)
                IN
                ProcessAnswers(Tail(answers), examId,
                    [acc EXCEPT !.rows = Append(@, row),
                                !.score = IF row.is_correct THEN @ + q.marks ELSE @,
                                !.count = IF row.is_correct THEN @ + 1 ELSE @])

Grade(answers, examId) ==
    ProcessAnswers(answers, examId,
                   [rows |-> <<>>, score |-> 0, count |-> 0, raised |-> FALSE])

PassedAbove(score, exam) == score > exam.passing_marks

\* is_passed = total_score >= exam.passing_marks
Passed(score, exam) == score >= exam.passing_marks

\* The final update of the attempt.
CompleteKeepsCount(row, g, exam) ==
    [row EXCEPT !.score = g.score, !.correct_answers = g.count,
                !.is_passed = Passed(g.score, exam),
                !.completed_at = Some(now)]

CompleteAttempt(row, g, exam) ==
    [row EXCEPT !.score = g.score, !.correct_answers = g.count,
                !.is_passed = Passed(g.score, exam),
                !.completed_at = Some(now),
                !.total_questions = QuestionCount(exam.id)]

SubmitExam(u, pk, bodies) ==
    LET req == Request("submit_exam", u, pk)
        found == { e \in ExamQueryset(u) : e.id = pk }
    IN
    IF found = {} \/ StudentsOf(u) = {} THEN
        /\ last' = [req EXCEPT !.status = 404]
        /\ UNCHANGED <<calls, now, authVars, rosterVars, examVars, history>>
    ELSE
        LET exam == CHOOSE e \in found : TRUE
            student == CHOOSE s \in StudentsOf(u) : TRUE
            goc == GetOrCreate(student.id, exam.id, QuestionCount(exam.id))
            seen == [req EXCEPT !.pre = PreRow(student.id, exam.id)]
        IN
        /\ goc.created => nextStudentExamId <= MaxStudentExams
        /\ nextStudentExamId' = IF goc.created THEN nextStudentExamId + 1
                                ELSE nextStudentExamId
        /\ UNCHANGED <<calls, now, authVars, rosterVars, exams, questions, nextQuestionId>>
        /\ IF IsCompleted(goc.row) THEN
               /\ last' = [seen EXCEPT !.status = 400, !.score = goc.row.score,
                                       !.preAnswers = AnswersOf(goc.row.id)]
               /\ studentExams' = goc.table
               /\ UNCHANGED <<studentAnswers, history>>
           ELSE
               \* request.data is read from here on
               \E body \in bodies :
                   LET read == [seen EXCEPT !.body = Some(body)]
                       g == Grade(body.answers, exam.id)
                       cleared == DeleteAnswers(studentAnswers, goc.row.id)
                   IN
                   IF body.kind # "list" THEN
                       /\ last' = [read EXCEPT !.status = 400]
                       /\ studentExams' = goc.table
                       /\ UNCHANGED <<studentAnswers, history>>
                   ELSE IF g.raised THEN
                       \* ValueError out of Question.objects.get: the request ends
                       \* in a 500 after the deletion and the rows created so far
                       \* (autocommit, no transaction around the view).
                       /\ last' = [read EXCEPT !.status = 500]
                       /\ studentExams' = goc.table
                       /\ studentAnswers' = [cleared EXCEPT ![goc.row.id] = @ \o g.rows]
                       /\ UNCHANGED history
                   ELSE
                       LET row == CompleteAttempt(goc.row, g, exam) IN
                       /\ studentExams' = SaveRow(goc.table, row)
                       /\ studentAnswers' = [cleared EXCEPT ![row.id] = @ \o g.rows]
                       /\ last' = [read EXCEPT !.status = 200, !.score = g.score,
                                               !.correct_answers = g.count,
                                               !.total_questions = row.total_questions,
                                               !.is_passed = row.is_passed,
                                               !.rows = {row.id}]
                       /\ history' = [history EXCEPT !.submitLog[row.id] =
                              Some([score |-> g.score, is_passed |-> row.is_passed])]

----------------------------------------------------------------------------
(* StudentExam.objects.create under unique_together = ['student', 'exam'] *)

\* The storage layer's check of the unique constraint for a row to insert.
UniqueTogetherOff(table, row) == TRUE

UniqueTogether(table, row) ==
    \A r \in table : ~(r.student = row.student /\ r.exam = row.exam)

CreateStudentExam(sid, eid) ==
    LET row == NewStudentExam(nextStudentExamId, sid, eid, 0)
        req == [Request("create_student_exam", "", eid) EXCEPT
                    !.pre = PreRow(sid, eid), !.preAnswers = PreAnswers(sid, eid)]
    IN
    /\ UNCHANGED <<calls, now, authVars, rosterVars, history, exams, questions, nextQuestionId,
                   studentAnswers>>
    /\ IF UniqueTogether(studentExams, row) THEN
           /\ nextStudentExamId <= MaxStudentExams
           /\ studentExams' = studentExams \cup {row}
           /\ nextStudentExamId' = nextStudentExamId + 1
           /\ last' = [req EXCEPT !.status = 201, !.rows = {row.id}]
       ELSE
           \* IntegrityError: nothing is inserted
           /\ UNCHANGED <<studentExams, nextStudentExamId>>
           /\ last' = [req EXCEPT !.status = 409]

----------------------------------------------------------------------------
(* QuestionViewSet: create, partial update of correct_answer, destroy *)

CreateQuestion(u, eid, correct, marks) ==
    LET req == Request("create_question", u, eid) IN
    IF ~(HasProfile(u) /\ RoleOf(u) = "teacher") THEN
        /\ last' = [req EXCEPT !.status = 403]
        /\ UNCHANGED <<calls, now, authVars, rosterVars, examVars, history>>
    ELSE IF correct \notin Letters \/ ~(\E e \in exams : e.id = eid) THEN
        /\ last' = [req EXCEPT !.status = 400]
        /\ UNCHANGED <<calls, now, authVars, rosterVars, examVars, history>>
    ELSE
        /\ nextQuestionId <= MaxQuestions
        /\ questions' = questions \cup
              { [id |-> nextQuestionId, exam |-> eid, correct_answer |-> correct,
                 marks |-> marks] }
        /\ nextQuestionId' = nextQuestionId + 1
        /\ last' = [req EXCEPT !.status = 201]
        /\ UNCHANGED <<calls, now, authVars, rosterVars, history, exams, studentExams,
                       nextStudentExamId, studentAnswers>>

UpdateQuestion(u, qid, correct) ==
    LET req == Request("update_question", u, qid)
        found == { q \in QuestionQueryset(u) : q.id = qid }
    IN
    IF found = {} THEN
        /\ last' = [req EXCEPT !.status = 404]
        /\ UNCHANGED <<calls, now, authVars, rosterVars, examVars, history>>
    ELSE IF correct \notin Letters THEN
        /\ last' = [req EXCEPT !.status = 400]
        /\ UNCHANGED <<calls, now, authVars, rosterVars, examVars, history>>
    ELSE
        LET q == CHOOSE x \in found : TRUE IN
        /\ questions' = (questions \ {q}) \cup {[q EXCEPT !.correct_answer = correct]}
        /\ last' = [req EXCEPT !.status = 200]
        /\ UNCHANGED <<calls, now, authVars, rosterVars, history, exams, nextQuestionId, studentExams,
                       nextStudentExamId, studentAnswers>>

\* on_delete=CASCADE of StudentAnswer.question
CascadeQuestion(table, qid) ==
    [ seid \in DOMAIN table |->
        SelectSeq(table[seid], LAMBDA a : a.question # qid) ]

DeleteQuestion(u, qid) ==
    LET req == Request("delete_question", u, qid)
        found == { q \in QuestionQueryset(u) : q.id = qid }
    IN
    IF found = {} THEN
        /\ last' = [req EXCEPT !.status = 404]
        /\ UNCHANGED <<calls, now, authVars, rosterVars, examVars, history>>
    ELSE
        /\ questions' = questions \ found
        /\ studentAnswers' = CascadeQuestion(studentAnswers, qid)
        /\ last' = [req EXCEPT !.status = 204]
        /\ UNCHANGED <<calls, now, authVars, rosterVars, history, exams, nextQuestionId, studentExams,
                       nextStudentExamId>>

----------------------------------------------------------------------------
(* StudentExamViewSet: list, retrieve, result *)

ListStudentExams(u) ==
    /\ last' = [Request("list_student_exams", u, 0) EXCEPT
                    !.status = 200, !.rows = { r.id : r \in StudentExamQueryset(u) }]
    /\ UNCHANGED <<calls, now, authVars, rosterVars, examVars, history>>

RetrieveStudentExam(u, pk) ==
    LET req == Request("retrieve_student_exam", u, pk)
        found == { r \in StudentExamQueryset(u) : r.id = pk }
    IN
    /\ UNCHANGED <<calls, now, authVars, rosterVars, examVars, history>>
    /\ IF found = {} THEN last' = [req EXCEPT !.status = 404]
       ELSE LET row == CHOOSE r \in found : TRUE IN
            last' = [req EXCEPT !.status = 200, !.rows = {row.id},
                                !.score = row.score, !.is_passed = row.is_passed,
                                !.correct_answers = row.correct_answers,
                                !.total_questions = row.total_questions]

\* One entry of the 'answers' list of the result response.
ResultEntryRegraded(a) ==
    LET live == { q \in questions : q.id = a.question } IN
    [ question |-> a.question, selected_answer |-> a.selected_answer,
      is_correct |-> \E q \in live : q.correct_answer = a.selected_answer ]

ResultEntry(a) ==
    [ question |-> a.question, selected_answer |-> a.selected_answer,
      is_correct |-> a.is_correct ]

Result(u, pk) ==
    LET req == Request("result", u, pk)
        found == { r \in StudentExamQueryset(u) : r.id = pk }
    IN
    /\ UNCHANGED <<calls, now, authVars, rosterVars, examVars, history>>
    /\ IF found = {} THEN last' = [req EXCEPT !.status = 404]
       ELSE LET row == CHOOSE r \in found : TRUE IN
            IF ~IsCompleted(row) THEN
                last' = [req EXCEPT !.status = 400, !.pre = Some(row)]
            ELSE
                last' = [req EXCEPT !.status = 200, !.rows = {row.id},
                            !.pre = Some(row),
                            !.score = row.score, !.is_passed = row.is_passed,
                            !.answers = [ i \in 1..Len(AnswersOf(row.id)) |->
                                            ResultEntry(AnswersOf(row.id)[i]) ]]

----------------------------------------------------------------------------
(* accounts: PasswordResetToken, forgot_password, reset_password *)

\* timezone.timedelta(hours=1); the clock counts hours
ExpiryHours == 1

\* User.pk, User.email, User.is_active
UserPk ==
    ("ann" :> 1) @@ ("bob" :> 2) @@ ("cat" :> 3) @@
    ("tom" :> 4) @@ ("tim" :> 5) @@ ("root" :> 6)
EmailOf ==
    ("ann" :> "ann@x") @@ ("bob" :> "shared@x") @@ ("cat" :> "shared@x") @@
    ("tom" :> "staff@x") @@ ("tim" :> "staff@x") @@ ("root" :> "root@x")
InactiveUsers == {"tom", "tim"}
IsActive(u) == u \notin InactiveUsers
InitAccounts == { [pk |-> u, username |-> u, email |-> EmailOf[u]] : u \in Users }

\* request.data.get('email'): absent/empty, one account, two active accounts,
\* two inactive accounts, no account
Emails == {"", "ann@x", "shared@x", "staff@x", "none@x"}

\* request.data.get('new_password')
InitialPassword == "oldpass"
NewPasswords == {"", "abc", "secret1", "secret2"}
MinPasswordLength == 6

\* user.set_password / check_password: the stored value is a hash of the raw one
MakePassword(raw) == <<"pbkdf2_sha256", raw>>
CheckPassword(raw, encoded) == encoded = MakePassword(raw)

\* PasswordResetToken.save
NewToken(t, u) ==
    [ token |-> t, user |-> u, created_at |-> now,
      expires_at |-> now + ExpiryHours, used |-> FALSE ]

\* PasswordResetToken.is_expired, is_valid
IsExpired(tk) == now > tk.expires_at
IsValidIgnoresUsed(tk) == ~IsExpired(tk)

IsValid(tk) == ~tk.used /\ ~IsExpired(tk)

\* PasswordResetToken.objects.filter(user=user).delete()
KeepTokensOf(table, u) == table

DeleteTokensOf(table, u) == { tk \in table : tk.user # u }

\* users.first(): the matching account of least pk
First(us) == CHOOSE u \in us : \A v \in us : UserPk[u] <= UserPk[v]

ForgotPassword(email) ==
    LET req == [Request("forgot_password", "", 0) EXCEPT
                    !.body = Some(email), !.old = Some(password)]
        matching == { a.pk : a \in { x \in accounts : x.email = email } }
        active == { u \in matching : IsActive(u) }
    IN
    IF email = "" THEN
        /\ last' = [req EXCEPT !.status = 400]
        /\ UNCHANGED <<calls, now, authVars, rosterVars, examVars, history>>
    ELSE IF matching = {} THEN
        /\ last' = [req EXCEPT !.status = 404]
        /\ UNCHANGED <<calls, now, authVars, rosterVars, examVars, history>>
    ELSE IF Cardinality(matching) > 1 /\ active = {} THEN
        /\ last' = [req EXCEPT !.status = 400]
        /\ UNCHANGED <<calls, now, authVars, rosterVars, examVars, history>>
    ELSE
        LET user == IF Cardinality(matching) > 1 THEN First(active)
                    ELSE CHOOSE u \in matching : TRUE
            row == NewToken(nextToken, user)
        IN
        /\ nextToken <= MaxTokens
        /\ tokens' = DeleteTokensOf(tokens, user) \cup {row}
        /\ nextToken' = nextToken + 1
        /\ history' = [history EXCEPT !.issuedTo[row.token] = user]
        \* send_mail either delivers or raises; the token is stored either way
        /\ \E sent \in BOOLEAN :
              last' = [req EXCEPT !.user = user, !.pk = row.token,
                                  !.status = IF sent THEN 200 ELSE 500]
        /\ UNCHANGED <<calls, now, password, rosterVars, examVars>>

\* token: Null when the request has none, else the token string (its number)
TokenInputs == {Null} \cup { Some(t) : t \in 1..MaxTokens }

ResetPassword(token, new_password) ==
    LET req == [Request("reset_password", "", 0) EXCEPT
                    !.body = Some(new_password), !.old = Some(password)]
    IN
    IF token = Null \/ new_password = "" THEN
        /\ last' = [req EXCEPT !.status = 400]
        /\ UNCHANGED <<calls, now, authVars, rosterVars, examVars, history>>
    ELSE
        LET found == { tk \in tokens : tk.token = Val(token) }
            seen == [req EXCEPT !.pk = Val(token),
                        !.pre = IF found = {} THEN Null
                                ELSE Some(CHOOSE tk \in found : TRUE)]
        IN
        IF Len(new_password) < MinPasswordLength THEN
            /\ last' = [seen EXCEPT !.status = 400]
            /\ UNCHANGED <<calls, now, authVars, rosterVars, examVars, history>>
        ELSE IF found = {} THEN
            /\ last' = [seen EXCEPT !.status = 400]
            /\ UNCHANGED <<calls, now, authVars, rosterVars, examVars, history>>
        ELSE
            LET tk == CHOOSE x \in found : TRUE IN
            IF ~IsValid(tk) THEN
                /\ last' = [seen EXCEPT !.status = 400, !.user = tk.user]
                /\ UNCHANGED <<calls, now, authVars, rosterVars, examVars, history>>
            ELSE
                /\ password' = [password EXCEPT ![tk.user] = MakePassword(new_password)]
                /\ tokens' = (tokens \ {tk}) \cup {[tk EXCEPT !.used = TRUE]}
                /\ history' = [history EXCEPT !.resets[tk.token] = @ + 1]
                /\ last' = [seen EXCEPT !.status = 200, !.user = tk.user]
                /\ UNCHANGED <<calls, now, nextToken, rosterVars, examVars>>

----------------------------------------------------------------------------
(* accounts: register *)

\* UserManager.normalize_email lower-cases the domain part of the address;
\* AbstractBaseUser.normalize_username applies NFKC ("neo(fullwidth)" stands for
\* neo written in fullwidth letters).
LowerDomain == ("new@X" :> "new@x")
NormalizeEmail(email) == IF email \in DOMAIN LowerDomain THEN LowerDomain[email] ELSE email
NFKC == ("neo(fullwidth)" :> "neo")
NormalizeUsername(name) == IF name \in DOMAIN NFKC THEN NFKC[name] ELSE name

\* request.data of register
RegisterUsernames == {"", "ann", "neo", "zed", "neo(fullwidth)"}
RegisterEmails == {"", "ann@x", "new@x", "new@X"}
RegisterPasswords == {"", "secret1"}
Roles == {"student", "teacher", "admin"}

\* User.username is unique
UsernameTaken(table, name) == \E a \in table : a.username = name

\* User.objects.create_user followed by the hashing of the password
NewUser(pk, username, email) ==
    [ pk |-> pk, username |-> NormalizeUsername(username), email |-> NormalizeEmail(email) ]

Register(username, pw, email, role) ==
    LET req == [Request("register", "", 0) EXCEPT
                    !.body = Some([username |-> username, email |-> email, role |-> role]),
                    !.pre = Some([accounts |-> accounts, userprofile |-> userprofile]),
                    !.old = Some(password)]
    IN
    IF username = "" \/ pw = "" \/ email = "" THEN
        /\ last' = [req EXCEPT !.status = 400]
        /\ UNCHANGED <<calls, now, authVars, rosterVars, examVars, history>>
    ELSE IF \E a \in accounts : a.username = username THEN
        /\ last' = [req EXCEPT !.status = 400]
        /\ UNCHANGED <<calls, now, authVars, rosterVars, examVars, history>>
    ELSE IF \E a \in accounts : a.email = email THEN
        /\ last' = [req EXCEPT !.status = 400]
        /\ UNCHANGED <<calls, now, authVars, rosterVars, examVars, history>>
    ELSE
        LET row == NewUser(FreshUsers[nextUserId], username, email) IN
        IF UsernameTaken(accounts, row.username) THEN
            \* IntegrityError out of create_user, turned into a 500 by the view
            /\ last' = [req EXCEPT !.status = 500]
            /\ UNCHANGED <<calls, now, authVars, rosterVars, examVars, history>>
        ELSE
            /\ nextUserId <= MaxNewAccounts
            /\ accounts' = accounts \cup {row}
            /\ nextUserId' = nextUserId + 1
            /\ password' = [password EXCEPT ![row.pk] = MakePassword(pw)]
            /\ userprofile' = [userprofile EXCEPT ![row.pk] = Some(role)]
            /\ last' = [req EXCEPT !.status = 201, !.user = row.pk]
            /\ UNCHANGED <<calls, now, tokens, nextToken, students, teachers, nextStudentId,
                           nextTeacherId, examVars, history>>

----------------------------------------------------------------------------
(* students.StudentViewSet.create and teachers.TeacherViewSet.create *)

\* User.is_superuser; login gives every superuser an admin profile
Superusers == {"root"}

IsStaffOrSuperuser(u) ==
    IF HasProfile(u) THEN RoleOf(u) \in {"admin", "teacher"} ELSE u \in Superusers

\* StudentViewSet.check_admin_permission
IsAdminOrSuperuser(u) == IF HasProfile(u) THEN RoleOf(u) = "admin" ELSE u \in Superusers

\* TeacherViewSet.check_admin_permission
IsAdmin(u) == HasProfile(u) /\ RoleOf(u) = "admin"

\* What a roster request sees before it runs.
Roster ==
    [ accounts |-> accounts, userprofile |-> userprofile, students |-> students,
      teachers |-> teachers ]

\* The step of a creation at which the database refuses the insert: 0 for none,
\* 1 create_user, 2 UserProfile.objects.create, 3 the roster row.
Faults == 0..3

\* request.data of the create endpoints
CreatePasswords == {"", "abc", "secret1"}
\* "bad" stands for an address the serializer's pattern refuses
IllFormedEmails == {"bad"}
CreateEmails == {"ann@x", "new@x", "zed@x", "bad"}
RollNumbers == {"R1", "R7", "R8"}

NewStudent(id, pk, email, roll, teacher) ==
    [ id |-> id, user |-> pk, assigned_teacher |-> teacher, email |-> email,
      roll_number |-> roll ]

NewTeacher(id, pk, email) == [ id |-> id, user |-> pk, email |-> email ]

\* @transaction.atomic: every insert of the call is undone when one of them
\* raised, although the view catches the exception and answers 400.
CreateStudent(u, pw, email, roll, fault) ==
    LET req == [Request("create_student", u, 0) EXCEPT
                    !.body = Some([email |-> email, roll_number |-> roll, fault |-> fault]),
                    !.pre = Some(Roster), !.old = Some(password)]
        row == NewUser(FreshUsers[nextUserId], email, email)
    IN
    IF ~IsAdminOrSuperuser(u) THEN
        /\ last' = [req EXCEPT !.status = 403]
        /\ UNCHANGED <<calls, now, authVars, rosterVars, examVars, history>>
    ELSE IF \/ pw = "" \/ Len(pw) < MinPasswordLength
            \/ email \in IllFormedEmails
            \/ \E s \in students : s.email = email \/ s.roll_number = roll
            \/ \E a \in accounts : a.email = email
            \/ UsernameTaken(accounts, row.username)
            \/ fault # 0
    THEN
        /\ last' = [req EXCEPT !.status = 400]
        /\ UNCHANGED <<calls, now, authVars, rosterVars, examVars, history>>
    ELSE
        /\ nextUserId <= MaxNewAccounts
        /\ accounts' = accounts \cup {row}
        /\ nextUserId' = nextUserId + 1
        /\ password' = [password EXCEPT ![row.pk] = MakePassword(pw)]
        /\ userprofile' = [userprofile EXCEPT ![row.pk] = Some("student")]
        /\ students' = students \cup {NewStudent(nextStudentId, row.pk, email, roll, Null)}
        /\ nextStudentId' = nextStudentId + 1
        /\ last' = [req EXCEPT !.status = 201, !.rows = {row.pk}]
        /\ UNCHANGED <<calls, now, tokens, nextToken, teachers, nextTeacherId, examVars, history>>

\* No transaction: each insert is committed as it is made.
CreateTeacher(u, pw, email, fault) ==
    LET req == [Request("create_teacher", u, 0) EXCEPT
                    !.body = Some([email |-> email, roll_number |-> "", fault |-> fault]),
                    !.pre = Some(Roster), !.old = Some(password)]
        row == NewUser(FreshUsers[nextUserId], email, email)
    IN
    IF ~IsAdmin(u) THEN
        /\ last' = [req EXCEPT !.status = 403]
        /\ UNCHANGED <<calls, now, authVars, rosterVars, examVars, history>>
    ELSE IF \/ pw = "" \/ Len(pw) < MinPasswordLength
            \/ email \in IllFormedEmails
            \/ \E t \in teachers : t.email = email
            \/ UsernameTaken(accounts, row.username)
            \/ fault = 1
    THEN
        /\ last' = [req EXCEPT !.status = 400]
        /\ UNCHANGED <<calls, now, authVars, rosterVars, examVars, history>>
    ELSE
        /\ nextUserId <= MaxNewAccounts
        /\ accounts' = accounts \cup {row}
        /\ nextUserId' = nextUserId + 1
        /\ password' = [password EXCEPT ![row.pk] = MakePassword(pw)]
        /\ userprofile' = IF fault = 2 THEN userprofile
                          ELSE [userprofile EXCEPT ![row.pk] = Some("teacher")]
        /\ teachers' = IF fault # 0 THEN teachers
                       ELSE teachers \cup {NewTeacher(nextTeacherId, row.pk, email)}
        /\ nextTeacherId' = IF fault # 0 THEN nextTeacherId ELSE nextTeacherId + 1
        /\ last' = [req EXCEPT !.status = IF fault # 0 THEN 400 ELSE 201,
                               !.rows = {row.pk}]
        /\ UNCHANGED <<calls, now, tokens, nextToken, students, nextStudentId, examVars, history>>

----------------------------------------------------------------------------
(* accounts.views.login: the profile it creates or corrects *)

\* "guest" stands for any role value outside ROLE_CHOICES
RegisterRoles == Roles \cup {"guest"}

Login(username, pw) ==
    LET req == [Request("login", "", 0) EXCEPT
                    !.pre = Some([accounts |-> accounts, userprofile |-> userprofile])]
        authenticated == { a \in accounts : /\ a.username = username
                                            /\ CheckPassword(pw, password[a.pk])
                                            /\ IsActive(a.pk) }
    IN
    IF username = "" \/ pw = "" THEN
        /\ last' = [req EXCEPT !.status = 400]
        /\ UNCHANGED <<calls, now, authVars, rosterVars, examVars, history>>
    ELSE IF authenticated = {} THEN
        /\ last' = [req EXCEPT !.status = 401]
        /\ UNCHANGED <<calls, now, authVars, rosterVars, examVars, history>>
    ELSE
        LET user == (CHOOSE a \in authenticated : TRUE).pk IN
        /\ userprofile' = [userprofile EXCEPT ![user] =
              IF user \in Superusers THEN Some("admin")
              ELSE IF HasProfile(user) THEN @
              ELSE Some("student")]
        /\ last' = [req EXCEPT !.status = 200, !.user = user]
        /\ UNCHANGED <<calls, now, authVars, students, accounts, teachers, nextUserId,
                       nextStudentId, nextTeacherId, examVars, history>>

----------------------------------------------------------------------------
(* Import of students from a CSV file *)

MaxRows == 2

\* One line of the file: the columns the view reads. date_ok is FALSE when
\* date_of_birth or admission_date is not a date the DateField can store.
CsvRow(email, roll, teacher_email, date_ok) ==
    [ email |-> email, roll_number |-> roll, assigned_teacher_email |-> teacher_email,
      date_ok |-> date_ok ]

ImportRows ==
    { CsvRow("new@x", "R7", "", TRUE),
      CsvRow("zed@x", "R8", "staff@x", TRUE),
      CsvRow("ann@x", "R9", "", TRUE),
      CsvRow("zed@x", "R1", "", TRUE),
      CsvRow("zed@x", "R8", "none@x", TRUE),
      CsvRow("zed@x", "R8", "", FALSE),
      CsvRow("", "R8", "", TRUE) }

RECURSIVE FilesUpTo(_)
FilesUpTo(n) ==
    IF n = 0 THEN { <<>> }
    ELSE LET shorter == FilesUpTo(n - 1)
         IN shorter \cup { Append(f, r) : f \in { x \in shorter : Len(x) = n - 1 },
                                           r \in ImportRows }

\* request.FILES: no file, a file that is not a .csv, a .csv without the
\* required columns, or a .csv with the required columns
CsvFile(name_ok, columns_ok, rows) ==
    [ name_ok |-> name_ok, columns_ok |-> columns_ok, rows |-> rows ]
ImportFiles ==
    {Null, Some(CsvFile(FALSE, TRUE, <<>>)), Some(CsvFile(TRUE, FALSE, <<>>))}
        \cup { Some(CsvFile(TRUE, TRUE, rows)) : rows \in FilesUpTo(MaxRows) }

\* The tables as the open transaction sees them, with what the response will
\* report. broken: a save raised inside the atomic block, so every later
\* query raises TransactionManagementError and the block ends in a rollback.
ImportStart ==
    [ accounts |-> accounts, userprofile |-> userprofile, password |-> password,
      students |-> students, nextUserId |-> nextUserId, nextStudentId |-> nextStudentId,
      broken |-> FALSE, errors |-> {}, success_count |-> 0 ]

TeacherByEmail(email) == { t.id : t \in { x \in teachers : x.email = email } }

\* The body of the loop for the line numbered index
ImportRow(st, row, index) ==
    LET reported == [st EXCEPT !.errors = @ \cup {index}]
        user == NewUser(FreshUsers[st.nextUserId], row.email, row.email)
        found == TeacherByEmail(row.assigned_teacher_email)
        assigned_teacher == IF found = {} THEN Null ELSE Some(CHOOSE t \in found : TRUE)
        withUser ==
            [st EXCEPT !.accounts = @ \cup {user},
                       !.nextUserId = @ + 1,
                       !.password[user.pk] = MakePassword("student123"),
                       !.userprofile[user.pk] = Some("student"),
                       !.errors = IF row.assigned_teacher_email # "" /\ found = {}
                                  THEN @ \cup {index} ELSE @]
    IN
    IF st.broken THEN reported
    ELSE IF row.email = "" \/ row.roll_number = "" THEN reported
    ELSE IF \E a \in st.accounts : a.email = row.email THEN reported
    ELSE IF \E s \in st.students : s.roll_number = row.roll_number THEN reported
    ELSE IF UsernameTaken(st.accounts, user.username)
    THEN [reported EXCEPT !.broken = TRUE]
    ELSE IF ~row.date_ok \/ \E s \in st.students : s.email = row.email
    THEN [withUser EXCEPT !.broken = TRUE, !.errors = @ \cup {index}]
    ELSE [withUser EXCEPT
            !.students = @ \cup {NewStudent(st.nextStudentId, user.pk, row.email,
                                            row.roll_number, assigned_teacher)},
            !.nextStudentId = @ + 1,
            !.success_count = @ + 1]

RECURSIVE ImportLoop(_, _, _)
ImportLoop(st, rows, i) ==
    IF i > Len(rows) THEN st
    ELSE ImportLoop(ImportRow(st, rows[i], i), rows, i + 1)

ImportCsv(u, file) ==
    LET req == [Request("import_csv", u, 0) EXCEPT
                    !.pre = Some(Roster), !.old = Some(password)]
    IN
    IF ~IsAdminOrSuperuser(u) THEN
        /\ last' = [req EXCEPT !.status = 403]
        /\ UNCHANGED <<calls, now, authVars, rosterVars, examVars, history>>
    ELSE IF file = Null \/ ~Val(file).name_ok \/ ~Val(file).columns_ok THEN
        /\ last' = [req EXCEPT !.status = 400]
        /\ UNCHANGED <<calls, now, authVars, rosterVars, examVars, history>>
    ELSE
        LET rows == Val(file).rows
            done == ImportLoop(ImportStart, rows, 1)
            kept == IF done.broken THEN ImportStart ELSE done
        IN
        /\ nextUserId + Len(rows) - 1 <= MaxNewAccounts
        /\ accounts' = kept.accounts
        /\ userprofile' = kept.userprofile
        /\ password' = kept.password
        /\ students' = kept.students
        /\ nextUserId' = kept.nextUserId
        /\ nextStudentId' = kept.nextStudentId
        /\ last' = [req EXCEPT !.status = 200,
                               !.body = Some([ rows |-> rows, errors |-> done.errors,
                                               success_count |-> done.success_count ])]
        /\ UNCHANGED <<calls, now, tokens, nextToken, teachers, nextTeacherId, examVars, history>>

----------------------------------------------------------------------------
(* Update and delete of roster records *)

\* StudentViewSet.get_queryset
StudentQueryset(u) ==
    IF ~HasProfile(u) THEN (IF u \in Superusers THEN students ELSE {})
    ELSE IF RoleOf(u) = "admin" THEN students
    ELSE IF RoleOf(u) = "teacher" THEN
        { s \in students : \E t \in teachers :
              t.user = u /\ s.assigned_teacher = Some(t.id) }
    ELSE IF RoleOf(u) = "student" THEN StudentsOf(u)
    ELSE {}

\* on_delete=CASCADE from User and from Student
DeleteAccount(table, pk) == { a \in table : a.pk # pk }
AttemptIdsOfStudent(sid) == { r.id : r \in { x \in studentExams : x.student = sid } }

\* on_delete=SET_NULL on Student.assigned_teacher
ForgetTeacher(table, tid) ==
    { IF s.assigned_teacher = Some(tid) THEN [s EXCEPT !.assigned_teacher = Null] ELSE s :
        s \in table }

UpdateTeacher(u, tid, email) ==
    LET req == [Request("update_teacher", u, tid) EXCEPT
                    !.body = Some([email |-> email, roll_number |-> "", fault |-> 0]),
                    !.pre = Some(Roster), !.old = Some(password)]
        found == { t \in teachers : t.id = tid }
    IN
    IF found = {} THEN
        /\ last' = [req EXCEPT !.status = 400]
        /\ UNCHANGED <<calls, now, authVars, rosterVars, examVars, history>>
    ELSE
        LET t == CHOOSE x \in found : TRUE IN
        IF \/ email \in IllFormedEmails
           \/ (t.email # email /\ \E x \in teachers : x.email = email)
           \/ \E a \in accounts : a.pk # t.user /\ a.username = email
        THEN
            /\ last' = [req EXCEPT !.status = 400]
            /\ UNCHANGED <<calls, now, authVars, rosterVars, examVars, history>>
        ELSE
            /\ accounts' = { IF a.pk = t.user
                             THEN [a EXCEPT !.username = email, !.email = email]
                             ELSE a : a \in accounts }
            /\ teachers' = (teachers \ {t}) \cup {[t EXCEPT !.email = email]}
            /\ last' = [req EXCEPT !.status = 200, !.rows = {t.user}]
            /\ UNCHANGED <<calls, now, authVars, userprofile, students, nextUserId,
                           nextStudentId, nextTeacherId, examVars, history>>

\* ModelViewSet.destroy: the Teacher row only
DeleteTeacher(u, tid) ==
    LET req == [Request("delete_teacher", u, tid) EXCEPT
                    !.pre = Some(Roster), !.old = Some(password)]
        found == { t \in teachers : t.id = tid }
    IN
    IF found = {} THEN
        /\ last' = [req EXCEPT !.status = 404]
        /\ UNCHANGED <<calls, now, authVars, rosterVars, examVars, history>>
    ELSE
        LET t == CHOOSE x \in found : TRUE IN
        /\ teachers' = teachers \ {t}
        /\ students' = ForgetTeacher(students, tid)
        /\ last' = [req EXCEPT !.status = 204, !.rows = {t.user}]
        /\ UNCHANGED <<calls, now, authVars, userprofile, accounts, nextUserId,
                       nextStudentId, nextTeacherId, examVars, history>>

UpdateStudent(u, sid, email) ==
    LET req == [Request("update_student", u, sid) EXCEPT
                    !.body = Some([email |-> email, roll_number |-> "", fault |-> 0]),
                    !.pre = Some(Roster), !.old = Some(password)]
        found == { s \in StudentQueryset(u) : s.id = sid }
    IN
    IF found = {} THEN
        /\ last' = [req EXCEPT !.status = 400]
        /\ UNCHANGED <<calls, now, authVars, rosterVars, examVars, history>>
    ELSE
        LET s == CHOOSE x \in found : TRUE IN
        IF ~(IsAdminOrSuperuser(u) \/ (HasProfile(u) /\ RoleOf(u) = "student" /\ s.user = u))
        THEN
            /\ last' = [req EXCEPT !.status = 403]
            /\ UNCHANGED <<calls, now, authVars, rosterVars, examVars, history>>
        ELSE IF \/ email \in IllFormedEmails
                \/ (s.email # email /\ \E x \in students : x.email = email)
                \/ \E a \in accounts : a.pk # s.user /\ (a.email = email \/ a.username = email)
        THEN
            /\ last' = [req EXCEPT !.status = 400]
            /\ UNCHANGED <<calls, now, authVars, rosterVars, examVars, history>>
        ELSE
            /\ accounts' = { IF a.pk = s.user
                             THEN [a EXCEPT !.username = email, !.email = email]
                             ELSE a : a \in accounts }
            /\ students' = (students \ {s}) \cup {[s EXCEPT !.email = email]}
            /\ last' = [req EXCEPT !.status = 200, !.rows = {s.user}]
            /\ UNCHANGED <<calls, now, authVars, userprofile, teachers, nextUserId,
                           nextStudentId, nextTeacherId, examVars, history>>

DeleteStudent(u, sid) ==
    LET req == [Request("delete_student", u, sid) EXCEPT
                    !.pre = Some(Roster), !.old = Some(password)]
        found == { s \in StudentQueryset(u) : s.id = sid }
    IN
    IF ~IsAdminOrSuperuser(u) THEN
        /\ last' = [req EXCEPT !.status = 403]
        /\ UNCHANGED <<calls, now, authVars, rosterVars, examVars, history>>
    ELSE IF found = {} THEN
        /\ last' = [req EXCEPT !.status = 400]
        /\ UNCHANGED <<calls, now, authVars, rosterVars, examVars, history>>
    ELSE
        LET s == CHOOSE x \in found : TRUE IN
        /\ students' = students \ {s}
        /\ studentExams' = { r \in studentExams : r.student # s.id }
        /\ studentAnswers' = [ seid \in DOMAIN studentAnswers |->
                                 IF seid \in AttemptIdsOfStudent(s.id) THEN <<>>
                                 ELSE studentAnswers[seid] ]
        /\ accounts' = DeleteAccount(accounts, s.user)
        /\ userprofile' = [userprofile EXCEPT ![s.user] = Null]
        /\ password' = [password EXCEPT ![s.user] = Null]
        /\ tokens' = { tk \in tokens : tk.user # s.user }
        /\ last' = [req EXCEPT !.status = 204, !.rows = {s.user}]
        /\ UNCHANGED <<calls, now, nextToken, teachers, nextUserId, nextStudentId, nextTeacherId,
                       exams, questions, nextQuestionId, nextStudentExamId, history>>

----------------------------------------------------------------------------
(* Authoring of exams and questions *)

MaxNewExams == 1

\* request.data of create-exam: "ab" is shorter than the serializer allows,
\* a duration of 0 is refused
ExamTitles == {"Quiz", "ab"}
ExamDurations == {0, 30}

\* IsAuthenticated: the caller is an existing account
IsAuthenticated(u) == \E a \in accounts : a.pk = u

NextExamId == 1 + Cardinality(exams)

CreateExam(u, title, duration) ==
    LET req == [Request("create_exam", u, 0) EXCEPT
                    !.body = Some([title |-> title, duration_minutes |-> duration]),
                    !.pre = Some([exams |-> exams, userprofile |-> userprofile])]
    IN
    /\ IsAuthenticated(u)
    /\ IF ~HasProfile(u) \/ RoleOf(u) # "teacher" THEN
           /\ last' = [req EXCEPT !.status = 403]
           /\ UNCHANGED <<calls, now, authVars, rosterVars, examVars, history>>
       ELSE IF Len(title) < 3 \/ duration <= 0 THEN
           /\ last' = [req EXCEPT !.status = 400]
           /\ UNCHANGED <<calls, now, authVars, rosterVars, examVars, history>>
       ELSE
           /\ Cardinality(exams) < Cardinality(InitExams(0)) + MaxNewExams
           /\ exams' = exams \cup
                 { [id |-> NextExamId, created_by |-> u, passing_marks |-> 0,
                    total_marks |-> 4] }
           /\ last' = [req EXCEPT !.status = 201, !.rows = {NextExamId}]
           /\ UNCHANGED <<calls, now, authVars, rosterVars, questions, nextQuestionId,
                          studentExams, nextStudentExamId, studentAnswers, history>>

\* PATCH of a question with the exam field, which QuestionSerializer leaves
\* writable: ModelViewSet.update on the caller's queryset
MoveQuestion(u, qid, eid) ==
    LET req == [Request("move_question", u, qid) EXCEPT !.body = Some([exam |-> eid])]
        found == { q \in QuestionQueryset(u) : q.id = qid }
    IN
    IF found = {} THEN
        /\ last' = [req EXCEPT !.status = 404]
        /\ UNCHANGED <<calls, now, authVars, rosterVars, examVars, history>>
    ELSE IF ~(\E e \in exams : e.id = eid) THEN
        /\ last' = [req EXCEPT !.status = 400]
        /\ UNCHANGED <<calls, now, authVars, rosterVars, examVars, history>>
    ELSE
        LET q == CHOOSE x \in found : TRUE IN
        /\ questions' = (questions \ {q}) \cup {[q EXCEPT !.exam = eid]}
        /\ last' = [req EXCEPT !.status = 200]
        /\ UNCHANGED <<calls, now, authVars, rosterVars, history, exams, nextQuestionId,
                       studentExams, nextStudentExamId, studentAnswers>>

----------------------------------------------------------------------------
(* start_exam and submit_exam statement by statement (autocommit: every ORM
   call is one statement, and statements of concurrent requests interleave) *)

RaceLists == { <<Entry("1", "A")>>, <<Entry("1", "B"), Entry("2", "B")>> }

Answered(c, status) == [calls[c] EXCEPT !.pc = "done", !.status = status]
Row(c) == Val(calls[c].row)
ExamOf(c) == CHOOSE e \in exams : e.id = calls[c].exam

\* self.get_object(), the role check of start_exam, Student.objects.get(user=)
Begin(c, kind, u, pk, answers) ==
    LET found == { e \in ExamQueryset(u) : e.id = pk }
        call == [Idle EXCEPT !.kind = kind, !.exam = pk, !.answers = answers]
    IN
    /\ calls[c].pc = "idle"
    /\ calls' = [calls EXCEPT ![c] =
          IF found = {} THEN [call EXCEPT !.pc = "done", !.status = 404]
          ELSE IF kind = "start" /\ (~HasProfile(u) \/ RoleOf(u) # "student")
          THEN [call EXCEPT !.pc = "done", !.status = 403]
          ELSE IF StudentsOf(u) = {} THEN [call EXCEPT !.pc = "done", !.status = 404]
          ELSE [call EXCEPT !.pc = "get",
                            !.student = (CHOOSE x \in StudentsOf(u) : TRUE).id]]
    /\ UNCHANGED <<now, authVars, rosterVars, examVars, last, history>>

\* get_or_create: self.get(**kwargs); more than one row raises
\* MultipleObjectsReturned, which no handler catches
GetAttempt(c) ==
    LET rows == AttemptsOf(calls[c].student, calls[c].exam) IN
    /\ calls[c].pc \in {"get", "reget"}
    /\ calls' = [calls EXCEPT ![c] =
          IF Cardinality(rows) = 1
          THEN [calls[c] EXCEPT !.pc = "check", !.row = Some(CHOOSE r \in rows : TRUE)]
          ELSE IF rows = {} /\ calls[c].pc = "get" THEN [calls[c] EXCEPT !.pc = "create"]
          ELSE Answered(c, 500)]
    /\ UNCHANGED <<now, authVars, rosterVars, examVars, last, history>>

\* get_or_create: self.create(**params); on IntegrityError, self.get again
CreateAttempt(c) ==
    LET row == NewStudentExam(nextStudentExamId, calls[c].student, calls[c].exam,
                              QuestionCount(calls[c].exam))
    IN
    /\ calls[c].pc = "create"
    /\ IF UniqueTogether(studentExams, row) THEN
           /\ nextStudentExamId <= MaxStudentExams
           /\ studentExams' = studentExams \cup {row}
           /\ nextStudentExamId' = nextStudentExamId + 1
           /\ calls' = [calls EXCEPT ![c] =
                 [calls[c] EXCEPT !.pc = "check", !.row = Some(row), !.created = TRUE]]
       ELSE
           /\ calls' = [calls EXCEPT ![c] = [calls[c] EXCEPT !.pc = "reget", !.conflict = TRUE]]
           /\ UNCHANGED <<studentExams, nextStudentExamId>>
    /\ UNCHANGED <<now, authVars, rosterVars, exams, questions, nextQuestionId,
                   studentAnswers, last, history>>

\* if student_exam.completed_at: on the object the handler holds
CheckCompleted(c) ==
    /\ calls[c].pc = "check"
    /\ calls' = [calls EXCEPT ![c] =
          IF IsCompleted(Row(c)) THEN Answered(c, 400)
          ELSE IF calls[c].kind = "start"
               THEN [calls[c] EXCEPT !.pc = IF calls[c].created THEN "respond" ELSE "reset"]
               ELSE [calls[c] EXCEPT !.pc = "clear"]]
    /\ UNCHANGED <<now, authVars, rosterVars, examVars, last, history>>

\* start_exam: student_exam.save() after the reset of the held object; save
\* writes every column of the row
ResetHeld(c) ==
    LET row == ResetAttempt(Row(c), QuestionCount(calls[c].exam)) IN
    /\ calls[c].pc = "reset"
    /\ studentExams' = SaveRow(studentExams, row)
    /\ calls' = [calls EXCEPT ![c] = [calls[c] EXCEPT !.pc = "clear", !.row = Some(row)]]
    /\ UNCHANGED <<now, authVars, rosterVars, exams, questions, nextQuestionId,
                   nextStudentExamId, studentAnswers, last, history>>

\* StudentAnswer.objects.filter(student_exam=student_exam).delete()
ClearAnswers(c) ==
    /\ calls[c].pc = "clear"
    /\ studentAnswers' = DeleteAnswers(studentAnswers, Row(c).id)
    /\ calls' = [calls EXCEPT ![c] =
          [calls[c] EXCEPT !.pc = IF calls[c].kind = "start" THEN "respond" ELSE "answer"]]
    /\ UNCHANGED <<now, authVars, rosterVars, exams, questions, nextQuestionId,
                   studentExams, nextStudentExamId, last, history>>

\* submit_exam: one pass of the loop over answers_data
StoreAnswer(c) ==
    LET g == Grade(<<calls[c].answers[calls[c].seen + 1]>>, calls[c].exam) IN
    /\ calls[c].pc = "answer"
    /\ calls[c].seen < Len(calls[c].answers)
    /\ studentAnswers' = [studentAnswers EXCEPT ![Row(c).id] = @ \o g.rows]
    /\ calls' = [calls EXCEPT ![c] =
          IF g.raised THEN Answered(c, 500)
          ELSE [calls[c] EXCEPT !.seen = @ + 1, !.score = @ + g.score, !.count = @ + g.count,
                         !.wrote = @ \o g.rows]]
    /\ UNCHANGED <<now, authVars, rosterVars, exams, questions, nextQuestionId,
                   studentExams, nextStudentExamId, last, history>>

\* submit_exam: student_exam.save() with the totals of this request
SaveCompleted(c) ==
    LET row == CompleteAttempt(Row(c), [score |-> calls[c].score, count |-> calls[c].count],
                               ExamOf(c))
    IN
    /\ calls[c].pc = "answer"
    /\ calls[c].seen = Len(calls[c].answers)
    /\ studentExams' = SaveRow(studentExams, row)
    /\ calls' = [calls EXCEPT ![c] = [Answered(c, 200) EXCEPT !.row = Some(row)]]
    /\ UNCHANGED <<now, authVars, rosterVars, exams, questions, nextQuestionId,
                   nextStudentExamId, studentAnswers, last, history>>

\* start_exam: the questions of the response
RespondStart(c) ==
    /\ calls[c].pc = "respond"
    /\ calls' = [calls EXCEPT ![c] =
          Answered(c, IF QuestionCount(calls[c].exam) = 0 THEN 400 ELSE 200)]
    /\ UNCHANGED <<now, authVars, rosterVars, examVars, last, history>>

Tick ==
    /\ now < MaxClock
    /\ now' = now + 1
    /\ last' = NoRequest
    /\ UNCHANGED <<calls, authVars, rosterVars, examVars, history>>

----------------------------------------------------------------------------
(* The attempt workflow of one student on a fixed catalogue *)

InitStore ==
    /\ now = 0
    /\ password = [u \in Users \cup NewUsers |->
                      IF u \in Users THEN MakePassword(InitialPassword) ELSE Null]
    /\ userprofile = [u \in Users \cup NewUsers |->
                      IF u \in Users THEN InitProfiles[u] ELSE Null]
    /\ students = InitStudents
    /\ accounts = InitAccounts
    /\ teachers = InitTeachers
    /\ nextUserId = 1
    /\ nextStudentId = Cardinality(InitStudents) + 1
    /\ nextTeacherId = Cardinality(InitTeachers) + 1
    /\ studentExams = {}
    /\ nextStudentExamId = 1
    /\ studentAnswers = [seid \in 1..MaxStudentExams |-> <<>>]
    /\ tokens = {}
    /\ nextToken = 1
    /\ last = NoRequest
    /\ calls = [c \in Calls |-> Idle]
    /\ history = [ submitLog |-> [seid \in 1..MaxStudentExams |-> Null],
                   issuedTo |-> [t \in 1..MaxTokens |-> ""],
                   resets |-> [t \in 1..MaxTokens |-> 0] ]

Init ==
    /\ InitStore
    /\ \E pm \in PassingMarks : exams = InitExams(pm)
    /\ questions = InitQuestions
    /\ nextQuestionId = Cardinality(InitQuestions) + 1

Next ==
    \/ \E u \in {"ann", "cat", "tom", "root"}, pk \in ExamIds : StartExam(u, pk)
    \/ \E u \in {"ann", "cat", "tom", "root"}, pk \in ExamIds :
          SubmitExam(u, pk, SubmitBodies)

Spec == Init /\ [][Next]_vars

----------------------------------------------------------------------------
(* A class of two students on the fixed catalogue, and the read endpoints *)

ClassEntries == { Entry("1", "A") }
ClassBodies == BodiesOver(ClassEntries)

ClassNext ==
    \/ \E u \in {"ann", "bob"}, pk \in ExamIds : StartExam(u, pk)
    \/ \E u \in {"ann", "bob"}, pk \in ExamIds : SubmitExam(u, pk, ClassBodies)
    \/ \E s \in InitStudents, eid \in ExamIds : CreateStudentExam(s.id, eid)
    \/ \E u \in {"ann", "bob", "cat"} : ListStudentExams(u)
    \/ \E u \in {"ann", "bob", "cat"}, pk \in 1..MaxStudentExams :
          RetrieveStudentExam(u, pk)
    \/ \E u \in {"ann", "bob", "cat"}, pk \in 1..MaxStudentExams : Result(u, pk)

ClassSpec == Init /\ [][ClassNext]_vars

----------------------------------------------------------------------------
(* One student while the teacher edits the catalogue of exam 1 *)

CatalogEntries == { Entry("1", "A"), Entry("x", "A") }
CatalogBodies == BodiesOver(CatalogEntries)

CatalogInit ==
    /\ InitStore
    /\ exams = InitExams(2)
    /\ questions = {}
    /\ nextQuestionId = 1

CatalogNext ==
    \/ StartExam("ann", 1)
    \/ SubmitExam("ann", 1, CatalogBodies)
    \/ \E u \in {"tom", "ann"}, c \in {"A", "B", "E"} : CreateQuestion(u, 1, c, 1)
    \/ \E qid \in 1..MaxQuestions, c \in {"A", "B"} : UpdateQuestion("tom", qid, c)
    \/ \E qid \in 1..MaxQuestions : DeleteQuestion("tom", qid)
    \/ \E pk \in 1..MaxStudentExams : Result("ann", pk)

CatalogSpec == CatalogInit /\ [][CatalogNext]_vars

----------------------------------------------------------------------------
(* Password reset by e-mailed token, with the clock running *)

AuthInit ==
    /\ InitStore
    /\ exams = InitExams(0)
    /\ questions = InitQuestions
    /\ nextQuestionId = Cardinality(InitQuestions) + 1

AuthNext ==
    \/ \E email \in Emails : ForgotPassword(email)
    \/ \E token \in TokenInputs, pw \in NewPasswords : ResetPassword(token, pw)
    \/ Tick

AuthSpec == AuthInit /\ [][AuthNext]_vars

----------------------------------------------------------------------------
(* Self-service registration *)

RegisterNext ==
    \E username \in RegisterUsernames, pw \in RegisterPasswords,
       email \in RegisterEmails, role \in Roles :
          Register(username, pw, email, role)

RegisterSpec == AuthInit /\ [][RegisterNext]_vars

----------------------------------------------------------------------------
(* Creation of roster records by an admin, a teacher and a student *)

RosterCallers == {"root", "tom", "ann"}

EnrolEmails == {"ann@x", "new@x", "bad"}
EnrolRolls == {"R1", "R7"}
EnrolFaults == {0, 3}
EnrolFiles == {Null, Some(CsvFile(TRUE, TRUE, <<CsvRow("new@x", "R7", "", TRUE)>>))}

EnrolNext ==
    \/ \E u \in RosterCallers, pw \in {"abc", "secret1"}, email \in EnrolEmails,
          roll \in EnrolRolls, fault \in EnrolFaults :
             CreateStudent(u, pw, email, roll, fault)
    \/ \E u \in RosterCallers, pw \in CreatePasswords, email \in EnrolEmails,
          fault \in Faults : CreateTeacher(u, pw, email, fault)
    \/ \E u \in RosterCallers, file \in EnrolFiles : ImportCsv(u, file)

EnrolSpec == AuthInit /\ [][EnrolNext]_vars

----------------------------------------------------------------------------
(* Exams and questions written by a teacher, an admin, a student and an
   account without a profile, starting from an empty catalogue *)

AuthorNext ==
    \/ CreateTeacher("root", "secret1", "new@x", 2)
    \/ \E u \in {"tom", "root", "ann", "u1"}, title \in ExamTitles,
          duration \in ExamDurations : CreateExam(u, title, duration)
    \/ \E u \in {"tom", "ann"}, eid \in ExamIds, c \in {"A", "E"} :
          CreateQuestion(u, eid, c, 1)

AuthorSpec == CatalogInit /\ [][AuthorNext]_vars

----------------------------------------------------------------------------
(* One student answering exam 1 while its teacher edits the exam field of
   its questions *)

MoveEntries == { Entry("1", "A") }
MoveBodies == BodiesOver(MoveEntries)

MoveNext ==
    \/ StartExam("ann", 1)
    \/ SubmitExam("ann", 1, MoveBodies)
    \/ \E qid \in 1..Cardinality(InitQuestions), eid \in ExamIds :
          MoveQuestion("tom", qid, eid)

MoveSpec == AuthInit /\ [][MoveNext]_vars

----------------------------------------------------------------------------
(* Start and submit by every kind of caller: a student of tom, a teacher, an
   admin, a student without assigned teacher and an account without profile *)

AccessCallers == {"ann", "tom", "root", "u1", "u2"}

AccessNext ==
    \/ CreateStudent("root", "secret1", "new@x", "R7", 0)
    \/ CreateTeacher("root", "secret1", "zed@x", 2)
    \/ \E u \in AccessCallers, pk \in ExamIds : IsAuthenticated(u) /\ StartExam(u, pk)
    \/ \E u \in AccessCallers, pk \in ExamIds :
          IsAuthenticated(u) /\ SubmitExam(u, pk, ClassBodies)

AccessSpec == AuthInit /\ [][AccessNext]_vars

----------------------------------------------------------------------------
(* Two requests of the student ann on exam 1 running concurrently, after any
   requests of ann that ran alone *)

NoCallBegun == \A c \in Calls : calls[c].pc = "idle"

RaceNext ==
    \/ NoCallBegun /\ StartExam("ann", 1)
    \/ NoCallBegun /\ SubmitExam("ann", 1, { [kind |-> "list", answers |-> a] : a \in RaceLists })
    \/ \E c \in Calls : Begin(c, "start", "ann", 1, <<>>)
    \/ \E c \in Calls, a \in RaceLists : Begin(c, "submit", "ann", 1, a)
    \/ \E c \in Calls : GetAttempt(c)
    \/ \E c \in Calls : CreateAttempt(c)
    \/ \E c \in Calls : CheckCompleted(c)
    \/ \E c \in Calls : ResetHeld(c)
    \/ \E c \in Calls : ClearAnswers(c)
    \/ \E c \in Calls : StoreAnswer(c)
    \/ \E c \in Calls : SaveCompleted(c)
    \/ \E c \in Calls : RespondStart(c)

RaceSpec == AuthInit /\ [][RaceNext]_vars

----------------------------------------------------------------------------
(* Every way an account gets a profile: register, login, creation of a
   student or a teacher by the admin, import *)

ProfileNext ==
    \/ \E username \in {"neo", "zed"}, email \in {"new@x", "zed@x"}, role \in RegisterRoles :
          Register(username, "secret1", email, role)
    \/ \E username \in {"", "root", "ann", "neo", "zed@x"}, pw \in {"oldpass", "secret1"} :
          Login(username, pw)
    \/ CreateStudent("root", "secret1", "new@x", "R7", 0)
    \/ \E fault \in {0, 2} : CreateTeacher("root", "secret1", "zed@x", fault)
    \/ \E file \in EnrolFiles : ImportCsv("root", file)

ProfileSpec == AuthInit /\ [][ProfileNext]_vars

----------------------------------------------------------------------------
(* Imports of CSV files by an admin, a teacher and a student *)

ImportNext == \E u \in RosterCallers, file \in ImportFiles : ImportCsv(u, file)

ImportSpec == AuthInit /\ [][ImportNext]_vars

----------------------------------------------------------------------------
(* Update and delete of the initial roster records *)

RecordNext ==
    \/ \E u \in RosterCallers, t \in InitTeachers, email \in CreateEmails :
          UpdateTeacher(u, t.id, email)
    \/ \E u \in RosterCallers, t \in InitTeachers : DeleteTeacher(u, t.id)
    \/ \E u \in RosterCallers, s \in InitStudents, email \in CreateEmails :
          UpdateStudent(u, s.id, email)
    \/ \E u \in RosterCallers, s \in InitStudents : DeleteStudent(u, s.id)

RecordSpec == AuthInit /\ [][RecordNext]_vars

----------------------------------------------------------------------------
(* Properties *)

PreRowOfLast == Val(last.pre)
LastBody == Val(last.body)

\* C1: after any sequence of start-exam and submit-exam calls (and direct
\* creations) there is at most one StudentExam row per (student, exam) pair; a
\* creation for a pair that has a row fails with a uniqueness conflict and leaves
\* that row, and its answers, as they were.
C1_OneAttemptPerPair ==
    /\ \A r1 \in studentExams : \A r2 \in studentExams :
          (r1.student = r2.student /\ r1.exam = r2.exam) => r1 = r2
    /\ (last.op = "create_student_exam" /\ last.pre # Null) =>
          /\ last.status = 409
          /\ PreRowOfLast \in studentExams
          /\ AnswersOf(PreRowOfLast.id) = last.preAnswers

C1_Witness ==
    /\ last.op = "create_student_exam"
    /\ last.status = 409
    /\ PreRowOfLast.completed_at # Null
    /\ Cardinality(studentExams) = 2

C3_RestartResets ==
    ( /\ last.op = "start_exam"
      /\ last.pre # Null
      /\ PreRowOfLast.completed_at = Null
      /\ QuestionCount(PreRowOfLast.exam) >= 1 )
    => /\ last.status = 200
       /\ \E r \in studentExams :
            /\ r.id = PreRowOfLast.id
            /\ r.student = PreRowOfLast.student /\ r.exam = PreRowOfLast.exam
            /\ r.score = 0 /\ r.correct_answers = 0 /\ r.is_passed = FALSE
            /\ r.completed_at = Null
            /\ r.total_questions = QuestionCount(r.exam)
            /\ AnswersOf(r.id) = <<>>

C3_Witness ==
    /\ last.op = "start_exam"
    /\ last.status = 200
    /\ last.pre # Null
    /\ last.preAnswers # <<>>
    /\ PreRowOfLast.total_questions # QuestionCount(PreRowOfLast.exam)

\* The attempts of the last caller on the exam the last request named.
LastAttempts ==
    { r \in studentExams :
        r.exam = last.pk /\ \E st \in StudentsOf(last.user) : st.id = r.student }

\* The last request was a submit-exam that got as far as reading a list of answers.
SubmittedList ==
    /\ last.op = "submit_exam"
    /\ last.body # Null
    /\ LastBody.kind = "list"

\* The entry names a question of the exam.
Belongs(a, examId) ==
    /\ IsNumeric(a.question_id)
    /\ \E q \in questions : q.id = IntOf[a.question_id] /\ q.exam = examId

WellFormed(answers, examId) ==
    \A i \in 1..Len(answers) :
        /\ IsEntry(answers[i])
        /\ answers[i].selected_answer \in Letters
        /\ Belongs(answers[i], examId)

RECURSIVE SumMarks(_)
SumMarks(qs) ==
    IF qs = {} THEN 0
    ELSE LET q == CHOOSE x \in qs : TRUE IN q.marks + SumMarks(qs \ {q})

\* The questions of the exam for which the list holds the correct answer.
AnsweredCorrectly(answers, examId) ==
    { q \in QuestionsOf(examId) :
        \E i \in 1..Len(answers) :
            /\ IsEntry(answers[i])
            /\ IsNumeric(answers[i].question_id)
            /\ IntOf[answers[i].question_id] = q.id
            /\ answers[i].selected_answer = q.correct_answer }

\* C4: after a successful submit-exam of a well-formed answers list, lists naming
\* a question more than once included, the stored score is the sum of the marks
\* of the exam's questions whose submitted answer equals correct_answer, and
\* is_passed holds exactly when score >= passing_marks.
C4_ScoreIsSumOfCorrectQuestions ==
    ( /\ SubmittedList
      /\ last.status = 200
      /\ WellFormed(LastBody.answers, last.pk) )
    => \A r \in LastAttempts :
          /\ r.score = SumMarks(AnsweredCorrectly(LastBody.answers, last.pk))
          /\ r.is_passed <=>
                \A e \in exams : e.id = r.exam => r.score >= e.passing_marks

\* The answers list without the entries naming a question that is not of the
\* exam or a letter outside A..D.
KeepsEntry(a, examId) ==
    IsEntry(a) => (a.selected_answer \in Letters /\ Belongs(a, examId))

RECURSIVE WithoutSkipped(_, _)
WithoutSkipped(answers, examId) ==
    IF answers = <<>> THEN <<>>
    ELSE IF KeepsEntry(Head(answers), examId)
         THEN <<Head(answers)>> \o WithoutSkipped(Tail(answers), examId)
         ELSE WithoutSkipped(Tail(answers), examId)

\* C5: a submit-exam whose list holds entries with a question_id that is not of
\* the exam, or a selected_answer outside A..D, succeeds; no answer row is stored
\* for those entries and score and correct_answers are those of the list without
\* them.
C5_ForeignEntriesAreSkipped ==
    SubmittedList =>
        LET g == Grade(WithoutSkipped(LastBody.answers, last.pk), last.pk) IN
        /\ last.status = 200
        /\ \A r \in LastAttempts :
              /\ r.score = g.score
              /\ r.correct_answers = g.count
              /\ AnswersOf(r.id) = g.rows

\* C6: a submit-exam whose answers list is empty is rejected with a validation
\* error and the attempt stays not completed.
C6_EmptyListIsRejected ==
    (SubmittedList /\ LastBody.answers = <<>>) =>
        /\ last.status = 400
        /\ \A r \in LastAttempts : r.completed_at = Null

\* C7: the result of an own attempt is refused with 400 while completed_at is
\* null; otherwise it carries the score and is_passed the completing submit-exam
\* returned, and one entry per stored answer row whose is_correct says whether
\* the selected answer was the question's correct_answer when it was submitted.
C7_ResultReplaysSubmission ==
    (last.op = "result" /\ last.pre # Null) =>
        LET stored == AnswersOf(PreRowOfLast.id)
            logged == history.submitLog[PreRowOfLast.id]
        IN
        IF PreRowOfLast.completed_at = Null THEN last.status = 400
        ELSE
            /\ last.status = 200
            /\ logged # Null
            /\ last.score = Val(logged).score
            /\ last.is_passed = Val(logged).is_passed
            /\ Len(last.answers) = Len(stored)
            /\ \A i \in 1..Len(stored) :
                  /\ last.answers[i].question = stored[i].question
                  /\ last.answers[i].selected_answer = stored[i].selected_answer
                  /\ last.answers[i].is_correct =
                        (stored[i].selected_answer = stored[i].graded_against)

C7_Witness ==
    /\ last.op = "result"
    /\ last.status = 200
    /\ last.score > 0
    /\ \E i \in 1..Len(last.answers) :
          /\ last.answers[i].is_correct
          /\ \E q \in questions :
                /\ q.id = last.answers[i].question
                /\ q.correct_answer # last.answers[i].selected_answer

\* The attempt belongs to the Student record of the account.
OwnedBy(seid, u) ==
    \E r \in studentExams :
        /\ r.id = seid
        /\ \E st \in students : st.id = r.student /\ st.user = u

\* C8: the student-exams list, detail and result endpoints answer a caller only
\* with attempts of the caller's own Student record: no request of one student
\* returns an attempt of another, and a caller without a Student record is
\* shown none.
C8_OwnAttemptsOnly ==
    (last.op \in {"list_student_exams", "retrieve_student_exam", "result"}) =>
        /\ \A seid \in last.rows : OwnedBy(seid, last.user)
        /\ (last.op # "list_student_exams" /\ last.status # 404)
              => OwnedBy(last.pk, last.user)
        /\ StudentsOf(last.user) = {} =>
              /\ last.rows = {}
              /\ last.op # "list_student_exams" => last.status = 404

C8_Witness ==
    /\ last.op = "list_student_exams"
    /\ last.user = "ann"
    /\ last.rows # {}
    /\ \E r \in studentExams : OwnedBy(r.id, "bob") /\ r.completed_at # Null

\* The last request was a reset-password carrying a token and a new password of
\* the required length, so that the token was looked up.
ResetReachedLookup ==
    /\ last.op = "reset_password"
    /\ last.pk # 0
    /\ Len(Val(last.body)) >= MinPasswordLength

\* C9: a reset token is consumed at most once. A reset-password call (with a new
\* password of accepted length) presenting an unused, unexpired token sets the
\* account's password and marks the token used; one presenting a used token, or
\* an unused token more than ExpiryHours after its creation, is answered 400 and
\* changes no password; no token ever performs two resets.
C9_TokenConsumedOnce ==
    /\ \A t \in 1..MaxTokens : history.resets[t] <= 1
    /\ (ResetReachedLookup /\ last.pre # Null) =>
          LET tk == PreRowOfLast IN
          IF ~tk.used /\ now <= tk.created_at + ExpiryHours THEN
              /\ last.status = 200
              /\ CheckPassword(Val(last.body), password[tk.user])
              /\ \A u \in Users \ {tk.user} : password[u] = Val(last.old)[u]
              /\ [tk EXCEPT !.used = TRUE] \in tokens
              /\ tk \notin tokens
          ELSE
              /\ last.status = 400
              /\ password = Val(last.old)
              /\ tokens = tokens \cup {tk}

C9_Witness ==
    /\ ResetReachedLookup
    /\ last.pre # Null
    /\ PreRowOfLast.used
    /\ ~IsExpired(PreRowOfLast)
    /\ last.status = 400
    /\ ~CheckPassword(Val(last.body), password[PreRowOfLast.user])
    /\ ~CheckPassword(InitialPassword, password[PreRowOfLast.user])

\* The token number was issued, and a later one was issued to the same account.
Superseded(t) ==
    /\ t \in 1..MaxTokens
    /\ history.issuedTo[t] # ""
    /\ \E t2 \in 1..MaxTokens : t2 > t /\ history.issuedTo[t2] = history.issuedTo[t]

\* C10: after any sequence of forgot-password and reset-password calls every
\* account has at most one PasswordResetToken row, and a reset-password call
\* presenting a token issued before a later forgot-password call for the same
\* account is answered 400 and changes no password.
C10_OneTokenPerAccount ==
    /\ \A u \in Users : Cardinality({ tk \in tokens : tk.user = u }) <= 1
    /\ \A tk \in tokens : ~Superseded(tk.token)
    /\ (ResetReachedLookup /\ Superseded(last.pk)) =>
          /\ last.status = 400
          /\ password = Val(last.old)

C10_Witness ==
    /\ ResetReachedLookup
    /\ Superseded(last.pk)
    /\ now <= 1
    /\ history.resets[last.pk] = 0
    /\ last.status = 400
    /\ \E tk \in tokens : tk.user = history.issuedTo[last.pk] /\ IsValid(tk)

\* C11: a register call whose username or email is that of an existing account
\* is answered 400 and creates no account and no role profile; hence no account
\* made by register shares its username or its email with another account.
C11_RegisterKeepsNamesUnique ==
    /\ ( /\ last.op = "register"
         /\ \E a \in PreRowOfLast.accounts :
               a.username = LastBody.username \/ a.email = LastBody.email )
       => /\ last.status = 400
          /\ accounts = PreRowOfLast.accounts
          /\ userprofile = PreRowOfLast.userprofile
    /\ \A a \in accounts : \A b \in accounts :
          (a.pk # b.pk /\ (a.pk \in NewUsers \/ b.pk \in NewUsers))
             => (a.username # b.username /\ a.email # b.email)


----------------------------------------------------------------------------
(* Creation of a Student or a Teacher by an admin *)

LastIsCreate == last.op \in {"create_student", "create_teacher"}

\* The account, the profile and the roster record the last creation made
MadeAccounts == accounts \ PreRowOfLast.accounts
MadeProfiles == { pk \in DOMAIN userprofile : userprofile[pk] # PreRowOfLast.userprofile[pk] }
MadeRecords ==
    { s.user : s \in students \ PreRowOfLast.students }
        \cup { t.user : t \in teachers \ PreRowOfLast.teachers }

\* C12: a creation of a Student or a Teacher either answers 201 and has made
\* one account, its profile and its roster record, or answers something else
\* and has made none of the three.
C12_CreationIsAllOrNothing ==
    LastIsCreate =>
        IF last.status = 201
        THEN /\ Cardinality(MadeAccounts) = 1
             /\ MadeProfiles = { a.pk : a \in MadeAccounts }
             /\ MadeRecords = MadeProfiles
        ELSE /\ MadeAccounts = {}
             /\ MadeProfiles = {}
             /\ MadeRecords = {}

----------------------------------------------------------------------------
(* Import of a CSV file *)

ImportAnswered == last.op = "import_csv" /\ last.status = 200
ImportedRows == LastBody.rows
ReportedRows == LastBody.errors
ValidatedRows == (1..Len(ImportedRows)) \ ReportedRows

\* The line repeats an email or roll number of the data committed before the
\* call or of an earlier line that was not reported
IsDuplicateRow(i) ==
    LET row == ImportedRows[i] IN
    \/ \E a \in PreRowOfLast.accounts : a.email = row.email
    \/ \E s \in PreRowOfLast.students : s.roll_number = row.roll_number
    \/ \E j \in ValidatedRows :
          /\ j < i
          /\ \/ ImportedRows[j].email = row.email
             \/ ImportedRows[j].roll_number = row.roll_number

StudentsMadeFor(email) == { s \in students \ PreRowOfLast.students : s.email = email }
AccountsMadeFor(email) == { a \in accounts \ PreRowOfLast.accounts : a.email = email }

\* C13: after an import, every line that is not in the error list has been
\* committed as exactly one new Student, one new Account and its student
\* profile, whatever happened to the other lines; a line in the error list has
\* made no Student and no Account; and a line that repeats an email or a roll
\* number of committed data or of an earlier line is in the error list.
C13_ImportRowsAreIndependent ==
    ImportAnswered =>
        /\ \A i \in 1..Len(ImportedRows) : IsDuplicateRow(i) => i \in ReportedRows
        /\ \A i \in 1..Len(ImportedRows) :
              LET email == ImportedRows[i].email
                  validated == { j \in ValidatedRows : ImportedRows[j].email = email }
              IN /\ Cardinality(StudentsMadeFor(email)) = Cardinality(validated)
                 /\ Cardinality(AccountsMadeFor(email)) = Cardinality(validated)
                 /\ \A a \in AccountsMadeFor(email) : userprofile[a.pk] = Some("student")
                 /\ \A s \in StudentsMadeFor(email) : \E a \in AccountsMadeFor(email) : s.user = a.pk

----------------------------------------------------------------------------
(* Who may create roster records *)

LastEnrols == last.op \in {"create_student", "create_teacher", "import_csv"}
CallerWasAdmin == PreRowOfLast.userprofile[last.user] = Some("admin")

\* C14: creating a Student, creating a Teacher and importing a CSV file by a
\* caller whose role is not admin is answered 403 and leaves the accounts, the
\* profiles, the passwords, the students and the teachers as they were.
C14_EnrolmentIsAdminOnly ==
    (LastEnrols /\ ~CallerWasAdmin) =>
        /\ last.status = 403
        /\ Roster = PreRowOfLast
        /\ password = Val(last.old)

\* A student was refused the creation of a teacher that would otherwise have
\* succeeded, after the admin had enrolled somebody.
C14_Witness ==
    /\ last.op = "create_teacher"
    /\ last.user = "ann"
    /\ LastBody.email = "new@x"
    /\ LastBody.fault = 0
    /\ last.status = 403
    /\ accounts # InitAccounts

----------------------------------------------------------------------------
(* Who may update and delete roster records *)

LastOnTeacher == last.op \in {"update_teacher", "delete_teacher"}
LastOnStudent == last.op \in {"update_student", "delete_student"}
CallerWasStudent == PreRowOfLast.userprofile[last.user] = Some("student")
OwnStudentRecord ==
    \E s \in PreRowOfLast.students : s.id = last.pk /\ s.user = last.user

\* C15: an update or a delete of a Teacher by a student is answered 403 and
\* changes neither the Teacher nor its account; and a caller who is not an
\* admin changes no roster record and no account through update or delete,
\* except a student updating their own Student record.
C15_OnlyAdminChangesRecords ==
    /\ (LastOnTeacher /\ CallerWasStudent) =>
          /\ last.status = 403
          /\ teachers = PreRowOfLast.teachers
          /\ accounts = PreRowOfLast.accounts
    /\ ((LastOnTeacher \/ LastOnStudent) /\ ~CallerWasAdmin
            /\ ~(last.op = "update_student" /\ CallerWasStudent /\ OwnStudentRecord)) =>
          Roster = PreRowOfLast

----------------------------------------------------------------------------
(* What a delete removes *)

LastDeleted == last.op \in {"delete_student", "delete_teacher"} /\ last.status = 204

\* C16: after a successful delete of a Student or of a Teacher the account
\* the record was linked to is gone and so is its profile, and no student is
\* assigned to a deleted teacher any more.
C16_DeleteRemovesAccount ==
    LastDeleted =>
        /\ \A pk \in last.rows :
              /\ ~\E a \in accounts : a.pk = pk
              /\ userprofile[pk] = Null
        /\ last.op = "delete_teacher" =>
              /\ ~\E t \in teachers : t.id = last.pk
              /\ \A s \in students : s.assigned_teacher # Some(last.pk)

----------------------------------------------------------------------------
(* Who may create an exam *)

LastCreatedExam == last.op = "create_exam"
ExamBodyIsValid == Len(LastBody.title) >= 3 /\ LastBody.duration_minutes > 0
ExamsMade == exams \ PreRowOfLast.exams

\* C17: a create-exam call with a valid body by a teacher or by an admin is
\* answered 201 and stores one exam whose creator is the caller; a create-exam
\* call by a student or by an account without a profile is answered 403 and
\* stores no exam.
C17_TeacherOrAdminCreatesExam ==
    LastCreatedExam =>
        LET profile == PreRowOfLast.userprofile[last.user] IN
        /\ (profile \in {Some("teacher"), Some("admin")} /\ ExamBodyIsValid) =>
              /\ last.status = 201
              /\ Cardinality(ExamsMade) = 1
              /\ \A e \in ExamsMade : e.created_by = last.user
        /\ (profile \in {Some("student"), Null}) =>
              /\ last.status = 403
              /\ ExamsMade = {}

\* C18: a create-question call is answered 201, that is, adds a Question to
\* the exam it names, only when the caller is a teacher and that exam was
\* created by the caller.
C18_QuestionOnOwnExamOnly ==
    (last.op = "create_question" /\ last.status = 201) =>
        /\ userprofile[last.user] = Some("teacher")
        /\ \E e \in exams : e.id = last.pk /\ e.created_by = last.user

----------------------------------------------------------------------------
(* The life of an attempt *)

\* The attempts of the pair the last start-exam or submit-exam was about
AttemptsOfLastPair ==
    { r \in studentExams : r.exam = last.pk /\ \E s \in StudentsOf(last.user) : r.student = s.id }

\* C19: a submit-exam for a (student, exam) pair that has no attempt row, that
\* is, was never started, leaves the pair without a row: it neither creates
\* nor completes an attempt; and an attempt that a start-exam or submit-exam
\* found completed is still completed afterwards.
C19_SubmitNeedsStartedAttempt ==
    /\ (last.op = "submit_exam" /\ last.status # 404 /\ last.pre = Null) =>
          AttemptsOfLastPair = {}
    /\ (last.op \in {"start_exam", "submit_exam"} /\ last.pre # Null) =>
          (IsCompleted(PreRowOfLast) => \A r \in AttemptsOfLastPair : IsCompleted(r))

----------------------------------------------------------------------------
(* The exam of an answered question *)

\* C20: every stored StudentAnswer references a Question whose exam is the
\* exam of the attempt the answer belongs to.
C20_AnswerQuestionIsOfAttemptExam ==
    \A r \in studentExams :
        \A k \in 1..Len(AnswersOf(r.id)) :
            \E q \in questions : q.id = AnswersOf(r.id)[k].question /\ q.exam = r.exam

----------------------------------------------------------------------------
(* Who may take an exam *)

\* The caller is a student whose assigned teacher created the exam
TakesExamOf(u, pk) ==
    /\ userprofile[u] = Some("student")
    /\ \E s \in students, t \in teachers, e \in exams :
          /\ s.user = u
          /\ s.assigned_teacher = Some(t.id)
          /\ e.id = pk
          /\ e.created_by = t.user

----------------------------------------------------------------------------
(* Concurrent requests on one (student, exam) pair *)

AllAnswered == \A c \in Calls : calls[c].pc = "done"
SameKind(kind) == \A c \in Calls : calls[c].kind = kind
RacedPairs == { <<calls[c].student, calls[c].exam>> : c \in Calls }

\* C22: when two start-exam calls, or two submit-exam calls, of one (student,
\* exam) pair have run concurrently and both have answered, the pair has
\* exactly one StudentExam row and each call was answered 200 or with a 4xx
\* status, never 500.
C22_RacingCallsLeaveOneRow ==
    (AllAnswered /\ (SameKind("start") \/ SameKind("submit"))) =>
        /\ \A p \in RacedPairs : Cardinality(AttemptsOf(p[1], p[2])) = 1
        /\ \A c \in Calls : calls[c].status = 200 \/ calls[c].status \in 400..499

\* Both start-exam calls missed the row in their SELECT; the INSERT of c1 went
\* through, the INSERT of c2 met the unique constraint, and both answered 200.
C22_Witness ==
    /\ AllAnswered
    /\ SameKind("start")
    /\ calls["c1"].created
    /\ calls["c2"].conflict
    /\ \A c \in Calls : calls[c].status = 200

----------------------------------------------------------------------------
(* Start of an exam that cannot be taken *)

\* C23: a start-exam call is answered 404 when the caller is a student
\* without Student record, and when the caller may take the exam, has not
\* completed it, and the exam has no questions.
C23_StartWithoutQuestionsIsNotFound ==
    last.op = "start_exam" =>
        /\ (userprofile[last.user] = Some("student") /\ StudentsOf(last.user) = {}) =>
              last.status = 404
        /\ ( /\ TakesExamOf(last.user, last.pk)
             /\ QuestionCount(last.pk) = 0
             /\ (last.pre # Null => ~IsCompleted(PreRowOfLast)) ) =>
              last.status = 404

----------------------------------------------------------------------------
(* The role of an account *)

\* C24: every account has at most one profile, and the role stored in it is
\* admin, teacher or student.
C24_ProfileRoleIsAChoice ==
    \A a \in accounts :
        /\ Len(userprofile[a.pk]) <= 1
        /\ HasProfile(a.pk) => RoleOf(a.pk) \in Roles

----------------------------------------------------------------------------
(* The question count of a completed attempt *)

SubmitSucceeded == last.op = "submit_exam" /\ last.status = 200
SubmittedRows == { r \in studentExams : r.id \in last.rows }

\* C25: after a successful submit-exam the attempt's total_questions, and the
\* one in the response, is the number of questions the exam has at the
\* submit, whatever count the row held since the start.
C25_TotalQuestionsFollowsExam ==
    SubmitSucceeded =>
        /\ last.total_questions = QuestionCount(last.pk)
        /\ \A r \in SubmittedRows : r.total_questions = QuestionCount(last.pk)

\* A submit succeeded on an attempt whose row held another count than the
\* exam has now: a question was added or removed since the start.
C25_Witness ==
    /\ SubmitSucceeded
    /\ last.pre # Null
    /\ PreRowOfLast.total_questions # QuestionCount(last.pk)
    /\ SubmittedRows # {}

----------------------------------------------------------------------------
(* A submission without any answer of the exam *)

\* The last request was a submit-exam that read a non-empty list of
\* {question_id, selected_answer} pairs with letters in A..D, every one of
\* which names a question that is not of the exam.
OnlyForeignAnswers ==
    /\ SubmittedList
    /\ LastBody.answers # <<>>
    /\ \A i \in 1..Len(LastBody.answers) :
          LET a == LastBody.answers[i] IN
          /\ IsEntry(a)
          /\ a.selected_answer \in Letters
          /\ IsNumeric(a.question_id)
          /\ ~Belongs(a, last.pk)

CompletedWithNothing(r) ==
    /\ AnswersOf(r.id) = <<>>
    /\ IsCompleted(r)
    /\ r.score = 0
    /\ r.correct_answers = 0

\* C26 as stated: a submit-exam whose list names only foreign questions
\* succeeds, stores no answer and completes the attempt with score 0,
\* correct_answers 0 and is_passed false.
C26_NoValidAnswerFails ==
    OnlyForeignAnswers =>
        /\ last.status = 200
        /\ LastAttempts # {}
        /\ \A r \in LastAttempts : CompletedWithNothing(r) /\ ~r.is_passed

\* C26, amended: a submit-exam whose list names only foreign questions
\* succeeds, stores no answer and completes the attempt with score 0 and
\* correct_answers 0; is_passed is false when the exam's passing_marks is
\* positive and true when it is 0 or less.
C26_NoValidAnswerScoresZero ==
    OnlyForeignAnswers =>
        /\ last.status = 200
        /\ last.is_passed = (\A e \in exams : e.id = last.pk => e.passing_marks <= 0)
        /\ LastAttempts # {}
        /\ \A r \in LastAttempts : CompletedWithNothing(r) /\ r.is_passed = last.is_passed

\* A list of two foreign entries was submitted to an exam with positive
\* passing_marks on a started attempt.
C26_Witness ==
    /\ OnlyForeignAnswers
    /\ Len(LastBody.answers) = MaxAnswers
    /\ last.pre # Null
    /\ \E e \in exams : e.id = last.pk /\ e.passing_marks > 0
    /\ \E r \in LastAttempts : IsCompleted(r) /\ ~r.is_passed

----------------------------------------------------------------------------
(* A start-exam racing with a submit-exam *)

\* The step is a statement of a start-exam call
StartCallSteps == \E c \in Calls : calls'[c] # calls[c] /\ calls'[c].kind = "start"

\* The completed attempts and their answers are after the step as before
CompletedRowsKept ==
    \A r \in studentExams :
        IsCompleted(r) => (r \in studentExams' /\ studentAnswers'[r.id] = studentAnswers[r.id])

\* C27: no statement of a start-exam call that runs concurrently with a
\* submit-exam of the same (student, exam) pair changes an attempt that is
\* completed: completed_at, score, correct_answers and is_passed stay as the
\* submit stored them and the stored answers are not deleted.
C27_StartNeverOverwritesCompleted ==
    [][ StartCallSteps => CompletedRowsKept ]_vars

----------------------------------------------------------------------------
(* The stored score against the stored answers *)

\* The marks of the question a stored answer is about.
MarksOfRow(a) == SumMarks({ q \in questions : q.id = a.question })

\* The sum of the marks of the stored answers with is_correct.
RECURSIVE CorrectMarks(_)
CorrectMarks(rows) ==
    IF rows = <<>> THEN 0
    ELSE (IF Head(rows).is_correct THEN MarksOfRow(Head(rows)) ELSE 0)
         + CorrectMarks(Tail(rows))

\* The number of stored answers with is_correct.
CorrectCount(rows) == Cardinality({ i \in 1..Len(rows) : rows[i].is_correct })

\* The score and the count of the completed attempts are those of their answers.
ScoreMatchesAnswers ==
    \A r \in studentExams :
        IsCompleted(r) =>
            /\ r.score = CorrectMarks(AnswersOf(r.id))
            /\ r.correct_answers = CorrectCount(AnswersOf(r.id))

\* No call is under way, and the calls that have run were submit-exam calls.
OnlySubmitsRan ==
    \A c \in Calls : calls[c].pc \in {"idle", "done"} /\ calls[c].kind \in {"none", "submit"}

\* C28: once the submit-exam calls have answered, whether they ran one after
\* the other or two at a time, every completed attempt stores as score the
\* sum of the marks of its stored answers with is_correct, and as
\* correct_answers the number of those answers.
C28_ScoreIsThatOfStoredAnswers ==
    OnlySubmitsRan => ScoreMatchesAnswers

----------------------------------------------------------------------------
(* Bounds of a completed attempt *)

\* The stored answers of the attempt that are about the question.
RowsAbout(seid, qid) ==
    { i \in 1..Len(AnswersOf(seid)) : AnswersOf(seid)[i].question = qid }

\* C29: every completed attempt has at most one stored answer per question,
\* its correct_answers is at most its total_questions, and its score is at
\* most the sum of the marks of the questions of its exam.
C29_CompletedAttemptIsBounded ==
    \A r \in studentExams :
        IsCompleted(r) =>
            /\ \A q \in questions : Cardinality(RowsAbout(r.id, q.id)) <= 1
            /\ r.correct_answers <= r.total_questions
            /\ r.score <= SumMarks(QuestionsOf(r.exam))

----------------------------------------------------------------------------
(* Rejected calls *)

\* The step is a start-exam or a submit-exam call that is answered with an error.
RejectedExamCall ==
    /\ last'.op \in {"start_exam", "submit_exam"}
    /\ last'.status >= 400

\* C30: a start-exam or submit-exam call that is answered with an error
\* leaves the attempts and the stored answers as they were: it creates no
\* StudentExam row, resets no attempt in progress and deletes no
\* StudentAnswer.
C30_RejectedCallChangesNothing ==
    [][ RejectedExamCall => UNCHANGED <<studentExams, studentAnswers>> ]_vars

====
